---- MODULE Spec2Model ----
(***************************************************************************)
(* Model of relay/application.py: the Application supervisor (run,         *)
(* handle_run, stop), the round-robin dispatcher (push_message), the       *)
(* PushWorker threads (handle_queue) and the request accessors             *)
(* (request_actor, request_instance, request_message, request_signature).  *)
(***************************************************************************)
EXTENDS Integers, Sequences, FiniteSets, TLC

\* ------------------------------------------------------------------------
\* Bounds of the model
\* ------------------------------------------------------------------------
MaxWorkers == 2
MaxPushLimit == 1
MaxPush == 3

MaxCalls == 4
MaxCap == 2

\* a message is fanned out to the subscribers' inboxes one push at a time:
\* push number k goes to the inbox of subscriber k
InboxOf(k) == k
Messages == {"m"}

\* Python's None
None == "None"
\* no pair in a worker's hands
NoItem == <<>>
\* a key missing from the request's store, and the None an accessor returns
Absent == <<>>
\* an accessor that ends in an exception instead of returning
Raises == <<"exception">>

WorkerIds == 0 .. (MaxWorkers - 1)

\* the keys the accessors read from the request's store
Fields == {"actor", "instance", "message", "signature"}
\* what the upstream handlers store under the first three
Stored == {<<"v1">>, <<"v2">>}
\* 'signature' header values: two well-formed ones and a malformed one
GoodHeaders == {"sigA", "sigB"}
Malformed == "malformed"

VARIABLES
    config,       \* self['config']: [workers, push_limit], read once
    app,          \* the Application dict: starttime, running, workers, last_worker
    semaphore,    \* self['semaphore']: its free permits (_value), the loop
                  \* its first waiter bound it to (the worker that runs it)
                  \* and the waiters whose future release() has resolved
    pc,           \* position of the main thread in run() / handle_run()
    bound,        \* TRUE while the TCPSite listens
    ppc,          \* position of the main thread inside push_message
    logging,      \* the logging module: whether it has the attribute verbose
    wpc,          \* position of each PushWorker thread
    queue,        \* PushWorker.queue of each worker
    cur,          \* the (inbox, message) pair a worker took off its queue
    pushLog,      \* history: every accepted push, with the worker it went to
    delivered,    \* history: the request() calls each worker started
    lastOp,       \* history: the last step was a stop() that cleared running,
                  \* a stop() right after that one, a failed push, or a
                  \* request() that raised (queue.Empty or something else)
    raised,       \* history: the workers whose loop a request() ended
    pushedToDead, \* history: a push landed on the queue of such a worker
    lateGets,     \* history: the items each worker took while running was false
    stopRequested, \* history: stop() was called after run() was invoked
    atTeardown,   \* history: how much each worker had started at teardown
    cache,        \* the keys of one Cache of self['cache'], least recent first
    cacheMax,     \* its maxsize
    cacheLog,     \* history: the reads and inserts made on it
    reqState,     \* web.Request._state of the request at hand
    reqHeader,    \* its 'signature' header, None when the header is missing
    ret,          \* the accessor called last and what it returned
    calls,        \* how often each accessor was called
    parses,       \* how often DotDict.new_from_signature was called
    firstRet      \* history: the first value each accessor returned

appVars == <<logging, config, app, semaphore, pc, bound, ppc>>
workerVars == <<wpc, queue, cur>>
histVars == <<pushLog, delivered, lastOp, raised, pushedToDead,
              lateGets, stopRequested, atTeardown>>
reqVars == <<reqState, reqHeader, ret, calls, parses, firstRet>>
cacheVars == <<cache, cacheMax, cacheLog>>
vars == <<logging, config, app, semaphore, pc, bound, ppc, wpc, queue, cur,
          pushLog, delivered, lastOp, raised, pushedToDead,
          lateGets, stopRequested, atTeardown,
          reqState, reqHeader, ret, calls, parses, firstRet,
          cache, cacheMax, cacheLog>>

\* ------------------------------------------------------------------------
\* Application.__init__
\* ------------------------------------------------------------------------

\* asyncio.Semaphore(self['config'].push_limit)
SemaphoreInit(limit) == [value |-> limit, loop |-> <<>>, woken |-> {}]

Configs == [workers : 0 .. MaxWorkers, push_limit : 1 .. MaxPushLimit]

\* a request nobody has touched yet, with the given 'signature' header
NewRequest(header) ==
    /\ reqState = [f \in Fields |-> Absent]
    /\ reqHeader = header
    /\ ret = [field |-> None, value |-> Absent]
    /\ calls = [f \in Fields |-> 0]
    /\ parses = 0
    /\ firstRet = [f \in Fields |-> Absent]

\* the logging module as the package's logger has set it up: with the
\* attribute verbose
Logging == [verbose |-> TRUE]

InitApp ==
    /\ config \in Configs
    /\ logging = Logging
    /\ app = [starttime |-> None, running |-> FALSE,
              workers |-> <<>>, last_worker |-> 0]
    /\ semaphore = SemaphoreInit(config.push_limit)
    /\ pc = "init"
    /\ bound = FALSE
    /\ ppc = "idle"
    /\ wpc = [i \in WorkerIds |-> "unborn"]
    /\ queue = [i \in WorkerIds |-> <<>>]
    /\ cur = [i \in WorkerIds |-> NoItem]
    /\ pushLog = <<>>
    /\ delivered = [i \in WorkerIds |-> <<>>]
    /\ lastOp = "other"
    /\ raised = {}
    /\ pushedToDead = FALSE
    /\ lateGets = [i \in WorkerIds |-> 0]
    /\ stopRequested = FALSE
    /\ atTeardown = [i \in WorkerIds |-> 0]

\* Cache(maxsize=self['config'][key]): an empty cache of the given size
NewCache(maxsize) ==
    /\ cache = <<>>
    /\ cacheMax = maxsize
    /\ cacheLog = <<>>

Init ==
    /\ InitApp
    /\ NewRequest(None)
    /\ NewCache(MaxCap)

\* ------------------------------------------------------------------------
\* Application.stop
\* ------------------------------------------------------------------------
stopToggle(a) == [a EXCEPT !.running = ~a.running]
stop(a) == [a EXCEPT !.running = FALSE]

\* stop() is the signal handler: it can run between any two steps
Stop ==
    /\ app' = stop(app)
    /\ stopRequested' = (stopRequested \/ pc # "init")
    /\ lastOp' = IF app.running THEN "stop"
                  ELSE IF lastOp = "stop" THEN "stop2" ELSE lastOp
    /\ UNCHANGED <<raised, reqVars>>
    /\ UNCHANGED <<lateGets, atTeardown, cacheVars>>
    /\ UNCHANGED <<ppc, logging, config, semaphore, pc, bound, wpc, queue, cur,
                   pushLog, delivered, pushedToDead>>

\* ------------------------------------------------------------------------
\* Application.run
\* ------------------------------------------------------------------------
runPortBusyStarts(a) == [a EXCEPT !.running = TRUE]
runPortBusy(a) == a

\* check_open_port() is the environment's answer
Run(portOpen) ==
    /\ pc = "init"
    /\ ppc = "idle"
    /\ IF portOpen
         THEN /\ pc' = "starting"
              /\ app' = app
              /\ lastOp' = "other"
         ELSE /\ pc' = "failed"
              /\ app' = runPortBusy(app)
              /\ lastOp' = "other"
    /\ UNCHANGED <<raised, reqVars>>
    /\ UNCHANGED <<lateGets, stopRequested, atTeardown, cacheVars>>
    /\ UNCHANGED <<ppc, logging, config, semaphore, bound, wpc, queue, cur,
                   pushLog, delivered, pushedToDead>>

\* ------------------------------------------------------------------------
\* Application.handle_run
\* ------------------------------------------------------------------------

\* self['running'] = True, the first statement of handle_run
handleRunFlagLate(a) == a
handleRunFlag(a) == [a EXCEPT !.running = TRUE]

HandleRunStart ==
    /\ pc = "starting"
    /\ ppc = "idle"
    /\ app' = handleRunFlag(app)
    /\ pc' = IF config.workers > 0 THEN "spawn" ELSE "setup"
    /\ lastOp' = "other"
    /\ UNCHANGED <<raised, reqVars>>
    /\ UNCHANGED <<lateGets, stopRequested, atTeardown, cacheVars>>
    /\ UNCHANGED <<ppc, logging, config, semaphore, bound, wpc, queue, cur,
                   pushLog, delivered, pushedToDead>>

\* range(self.config.workers): the loop runs while fewer workers exist
spawnMoreOff(n, count) == n + 1 < count
spawnMore(n, count) == n < count

\* one turn of the loop, first half: PushWorker(self); worker.start().
\* start() returns once the new thread runs
SpawnWorker ==
    /\ pc = "spawn"
    /\ ppc = "idle"
    /\ LET i == Len(app.workers) IN
         /\ i \in WorkerIds
         /\ wpc' = [wpc EXCEPT ![i] = "check"]
    /\ pc' = "append"
    /\ lastOp' = "other"
    /\ UNCHANGED <<raised, reqVars>>
    /\ UNCHANGED <<lateGets, stopRequested, atTeardown, cacheVars>>
    /\ UNCHANGED <<ppc, logging, config, app, semaphore, bound, queue, cur,
                   pushLog, delivered, pushedToDead>>

\* second half: self['workers'].append(worker), and the loop test
SpawnAppend ==
    /\ pc = "append"
    /\ ppc = "idle"
    /\ LET i == Len(app.workers) IN
         /\ app' = [app EXCEPT !.workers = Append(@, i)]
         /\ pc' = IF spawnMore(i + 1, config.workers) THEN "spawn" ELSE "setup"
    /\ lastOp' = "other"
    /\ UNCHANGED <<raised, reqVars>>
    /\ UNCHANGED <<lateGets, stopRequested, atTeardown, cacheVars>>
    /\ UNCHANGED <<ppc, logging, config, semaphore, bound, wpc, queue, cur,
                   pushLog, delivered, pushedToDead>>

\* await runner.setup(); await site.start(): the socket is bound inside
\* site.start(), which then gives the event loop a turn before it returns
SiteStart ==
    /\ pc = "setup"
    /\ ppc = "idle"
    /\ bound' = TRUE
    /\ pc' = "started"
    /\ lastOp' = "other"
    /\ UNCHANGED <<raised, reqVars>>
    /\ UNCHANGED <<lateGets, stopRequested, atTeardown, cacheVars>>
    /\ UNCHANGED <<ppc, logging, config, app, semaphore, wpc, queue, cur,
                   pushLog, delivered, pushedToDead>>

\* site.start() returned: self['starttime'] = datetime.now()
SetStarttime ==
    /\ pc = "started"
    /\ ppc = "idle"
    /\ app' = [app EXCEPT !.starttime = "now"]
    /\ pc' = "poll"
    /\ lastOp' = "other"
    /\ UNCHANGED <<raised, reqVars>>
    /\ UNCHANGED <<lateGets, stopRequested, atTeardown, cacheVars>>
    /\ UNCHANGED <<ppc, logging, config, semaphore, bound, wpc, queue, cur,
                   pushLog, delivered, pushedToDead>>

\* while self['running']: the flag is still set, go to sleep
PollSleep ==
    /\ pc = "poll"
    /\ ppc = "idle"
    /\ app.running
    /\ pc' = "sleep"
    /\ lastOp' = "other"
    /\ UNCHANGED <<raised, reqVars>>
    /\ UNCHANGED <<lateGets, stopRequested, atTeardown, cacheVars>>
    /\ UNCHANGED <<ppc, logging, config, app, semaphore, bound, wpc, queue, cur,
                   pushLog, delivered, pushedToDead>>

\* asyncio.sleep(0.25) returns
PollWake ==
    /\ pc = "sleep"
    /\ ppc = "idle"
    /\ pc' = "poll"
    /\ lastOp' = "other"
    /\ UNCHANGED <<raised, reqVars>>
    /\ UNCHANGED <<lateGets, stopRequested, atTeardown, cacheVars>>
    /\ UNCHANGED <<ppc, logging, config, app, semaphore, bound, wpc, queue, cur,
                   pushLog, delivered, pushedToDead>>

\* while self['running']: the flag is cleared, leave the loop
PollExit ==
    /\ pc = "poll"
    /\ ppc = "idle"
    /\ ~app.running
    /\ pc' = "site_stop"
    /\ lastOp' = "other"
    /\ UNCHANGED <<raised, reqVars>>
    /\ UNCHANGED <<lateGets, stopRequested, atTeardown, cacheVars>>
    /\ UNCHANGED <<ppc, logging, config, app, semaphore, bound, wpc, queue, cur,
                   pushLog, delivered, pushedToDead>>

\* await site.stop()
SiteStop ==
    /\ pc = "site_stop"
    /\ ppc = "idle"
    /\ bound' = FALSE
    /\ pc' = "teardown"
    /\ lastOp' = "other"
    /\ UNCHANGED <<raised, reqVars>>
    /\ UNCHANGED <<lateGets, stopRequested, atTeardown, cacheVars>>
    /\ UNCHANGED <<ppc, logging, config, app, semaphore, wpc, queue, cur,
                   pushLog, delivered, pushedToDead>>

teardownKeepsWorkers(a) == [a EXCEPT !.starttime = None, !.running = FALSE]
teardown(a) ==
    [a EXCEPT !.starttime = None, !.running = FALSE, !.workers = <<>>]

\* the three assignments after site.stop()
Teardown ==
    /\ pc = "teardown"
    /\ ppc = "idle"
    /\ app' = teardown(app)
    /\ pc' = "stopped"
    /\ atTeardown' = [i \in WorkerIds |-> Len(delivered[i])]
    /\ lastOp' = "other"
    /\ UNCHANGED <<raised, reqVars>>
    /\ UNCHANGED <<lateGets, stopRequested, cacheVars>>
    /\ UNCHANGED <<ppc, logging, config, semaphore, bound, wpc, queue, cur,
                   pushLog, delivered, pushedToDead>>

\* ------------------------------------------------------------------------
\* Application.push_message
\* ------------------------------------------------------------------------

\* the main thread is between two steps of run() when a handler calls push
PushPoints == {"init", "failed", "setup", "started", "poll", "sleep",
               "site_stop", "teardown", "stopped"}

\* self['workers'][self['last_worker']]
pickWorkerFirst(a) == a.workers[1]
pickWorker(a) == a.workers[a.last_worker + 1]

\* the worker is looked up and the pair is put on its queue; the cursor has
\* not moved yet
Push(inbox, message) ==
    /\ pc \in PushPoints
    /\ ppc = "idle"
    /\ Len(pushLog) < MaxPush
    /\ app.last_worker < Len(app.workers)
    /\ LET w == pickWorker(app)
           item == <<inbox, message>> IN
         /\ queue' = [queue EXCEPT ![w] = Append(@, item)]
         /\ pushLog' = Append(pushLog, [item |-> item, worker |-> w])
         /\ pushedToDead' = (pushedToDead \/ w \in raised)
    /\ ppc' = "put"
    /\ lastOp' = "other"
    /\ UNCHANGED <<raised, reqVars>>
    /\ UNCHANGED <<lateGets, stopRequested, atTeardown, cacheVars>>
    /\ UNCHANGED <<logging, config, app, semaphore, pc, bound, wpc, cur,
                   delivered>>

\* self['last_worker'] += 1
PushAdvance ==
    /\ ppc = "put"
    /\ app' = [app EXCEPT !.last_worker = @ + 1]
    /\ ppc' = "advanced"
    /\ lastOp' = "other"
    /\ UNCHANGED <<raised, reqVars>>
    /\ UNCHANGED <<lateGets, stopRequested, atTeardown, cacheVars>>
    /\ UNCHANGED <<logging, config, semaphore, pc, bound, wpc, queue, cur,
                   pushLog, delivered, pushedToDead>>

\* if self['last_worker'] >= len(self['workers']): self['last_worker'] = 0
wrapCursorNever(last, count) == last
wrapCursor(last, count) == IF last >= count THEN 0 ELSE last

PushWrap ==
    /\ ppc = "advanced"
    /\ app' = [app EXCEPT !.last_worker = wrapCursor(@, Len(app.workers))]
    /\ ppc' = "idle"
    /\ lastOp' = "other"
    /\ UNCHANGED <<raised, reqVars>>
    /\ UNCHANGED <<lateGets, stopRequested, atTeardown, cacheVars>>
    /\ UNCHANGED <<logging, config, semaphore, pc, bound, wpc, queue, cur,
                   pushLog, delivered, pushedToDead>>

\* the list index raises IndexError before anything is changed
PushError ==
    /\ pc \in PushPoints
    /\ ppc = "idle"
    /\ app.last_worker >= Len(app.workers)
    /\ lastOp # "push_error"
    /\ lastOp' = "push_error"
    /\ UNCHANGED <<raised, reqVars>>
    /\ UNCHANGED <<lateGets, stopRequested, atTeardown, cacheVars>>
    /\ UNCHANGED <<ppc, logging, config, app, semaphore, pc, bound, wpc, queue,
                   cur, pushLog, delivered, pushedToDead>>

\* ------------------------------------------------------------------------
\* PushWorker.handle_queue
\* ------------------------------------------------------------------------

\* while self.app['running']
loopAlways(a) == TRUE
loopNever(a) == FALSE
loopCondition(a) == a.running

WorkerCheck(i) ==
    /\ wpc[i] = "check"
    /\ wpc' = [wpc EXCEPT ![i] = IF loopCondition(app) THEN "get" ELSE "exited"]
    /\ lastOp' = "other"
    /\ UNCHANGED <<raised, reqVars>>
    /\ UNCHANGED <<lateGets, stopRequested, atTeardown, cacheVars>>
    /\ UNCHANGED <<ppc, logging, config, app, semaphore, pc, bound, queue, cur,
                   pushLog, delivered, pushedToDead>>

\* queue.Queue.get hands out the oldest item
queueTakePeek(q) == [item |-> Head(q), rest |-> q]
queueTakeLast(q) == [item |-> q[Len(q)], rest |-> SubSeq(q, 1, Len(q) - 1)]
queueTake(q) == [item |-> Head(q), rest |-> Tail(q)]

\* self.queue.get returns an item; task_done(); request(inbox, message) starts
WorkerGet(i) ==
    /\ wpc[i] = "get"
    /\ queue[i] # <<>>
    /\ LET t == queueTake(queue[i]) IN
         /\ queue' = [queue EXCEPT ![i] = t.rest]
         /\ cur' = [cur EXCEPT ![i] = t.item]
         /\ delivered' = [delivered EXCEPT ![i] = Append(@, t.item)]
    /\ lateGets' = [lateGets EXCEPT ![i] = IF app.running THEN @ ELSE @ + 1]
    /\ wpc' = [wpc EXCEPT ![i] = "request"]
    /\ lastOp' = "other"
    /\ UNCHANGED <<raised, reqVars>>
    /\ UNCHANGED <<stopRequested, atTeardown, cacheVars>>
    /\ UNCHANGED <<ppc, logging, config, app, semaphore, pc, bound, pushLog, pushedToDead>>

\* self.queue.get times out: queue.Empty is swallowed, back to the loop head
afterEmptyBlocks(p) == p
afterEmpty(p) == "check"

WorkerEmpty(i) ==
    /\ wpc[i] = "get"
    /\ queue[i] = <<>>
    /\ wpc' = [wpc EXCEPT ![i] = afterEmpty(@)]
    /\ lastOp' = "other"
    /\ UNCHANGED <<raised, reqVars>>
    /\ UNCHANGED <<lateGets, stopRequested, atTeardown, cacheVars>>
    /\ UNCHANGED <<ppc, logging, config, app, semaphore, pc, bound, queue, cur,
                   pushLog, delivered, pushedToDead>>

\* the waiters of the semaphore: the workers whose request() is suspended
\* in acquire()
Waiters(w) == {i \in WorkerIds : w[i] = "waiting"}

\* Semaphore.locked(): no free permit, or somebody waits
locked(s, w) == s.value = 0 \/ Waiters(w) # {}

\* Semaphore.acquire() when not locked
acquire(s) == [s EXCEPT !.value = @ - 1]

\* Semaphore.release(): one more permit, which goes straight to a waiter
\* whose future is still pending, if there is one
release(s, w) ==
    IF Waiters(w) \ s.woken # {}
      THEN [s EXCEPT !.woken = Waiters(w)]
      ELSE [s EXCEPT !.value = @ + 1]

\* the gate inside request(): the test whether a permit is free. The
\* semaphore is shared by threads, so another thread can run between the
\* test and what follows it
RequestTest(i) ==
    /\ wpc[i] = "request"
    /\ wpc' = [wpc EXCEPT ![i] = IF locked(semaphore, wpc) THEN "enqueue"
                                                          ELSE "acquire"]
    /\ lastOp' = "other"
    /\ UNCHANGED <<raised, reqVars>>
    /\ UNCHANGED <<lateGets, stopRequested, atTeardown, cacheVars>>
    /\ UNCHANGED <<ppc, logging, config, app, semaphore, pc, bound, queue, cur,
                   pushLog, delivered, pushedToDead>>

\* the test found a free permit: it is taken
RequestAcquire(i) ==
    /\ wpc[i] = "acquire"
    /\ semaphore' = acquire(semaphore)
    /\ wpc' = [wpc EXCEPT ![i] = "deliver"]
    /\ lastOp' = "other"
    /\ UNCHANGED <<raised, reqVars>>
    /\ UNCHANGED <<lateGets, stopRequested, atTeardown, cacheVars>>
    /\ UNCHANGED <<ppc, logging, config, app, pc, bound, queue, cur,
                   pushLog, delivered, pushedToDead>>

\* the test found the gate locked: the semaphore binds itself to the event
\* loop of its first waiter, and only a coroutine of that loop can wait
RequestWait(i) ==
    /\ wpc[i] = "enqueue"
    /\ semaphore.loop \in {<<>>, <<i>>}
    /\ semaphore' = [semaphore EXCEPT !.loop = <<i>>]
    /\ wpc' = [wpc EXCEPT ![i] = "waiting"]
    /\ lastOp' = "other"
    /\ UNCHANGED <<raised, reqVars>>
    /\ UNCHANGED <<lateGets, stopRequested, atTeardown, cacheVars>>
    /\ UNCHANGED <<ppc, logging, config, app, pc, bound, queue, cur,
                   pushLog, delivered, pushedToDead>>

\* the waiter's loop runs again after another thread resolved its future:
\* nothing in the release wakes that loop, so this step may never come
RequestResume(i) ==
    /\ wpc[i] = "waiting"
    /\ i \in semaphore.woken
    /\ semaphore' = [semaphore EXCEPT !.woken = @ \ {i}]
    /\ wpc' = [wpc EXCEPT ![i] = "deliver"]
    /\ lastOp' = "other"
    /\ UNCHANGED <<raised, reqVars>>
    /\ UNCHANGED <<lateGets, stopRequested, atTeardown, cacheVars>>
    /\ UNCHANGED <<ppc, logging, config, app, pc, bound, queue, cur,
                   pushLog, delivered, pushedToDead>>

\* an exception that is not queue.Empty leaves the loop
afterRaiseRetry(p) == "check"
afterRaise(p) == "dead"

\* logging.verbose(...) after request(): with the attribute the line logs
\* and the loop goes on, without it the line raises AttributeError
traceLog(l, p) == IF l.verbose THEN "check" ELSE afterRaise(p)

\* request() returned, then the trace log
RequestReturn(i) ==
    /\ wpc[i] = "deliver"
    /\ semaphore' = release(semaphore, wpc)
    /\ wpc' = [wpc EXCEPT ![i] = traceLog(logging, @)]
    /\ cur' = [cur EXCEPT ![i] = NoItem]
    /\ lastOp' = "other"
    /\ UNCHANGED <<raised, reqVars>>
    /\ UNCHANGED <<lateGets, stopRequested, atTeardown, cacheVars>>
    /\ UNCHANGED <<ppc, logging, config, app, pc, bound, queue, pushLog, delivered,
                   pushedToDead>>

\* the exceptions request() may raise, as far as handle_queue tells them
\* apart
Exceptions == {"queue.Empty", "Exception"}

\* except queue.Empty: pass   (the try block holds request() as well)
exceptEmpty(exc) == exc = "queue.Empty"

\* the exception unwinds handle_queue in the thread that ran it
raiseInAll(w, i) ==
    [j \in WorkerIds |-> IF w[j] = "unborn" THEN w[j] ELSE afterRaise(w[j])]
raiseIn(w, i) == [w EXCEPT ![i] = afterRaise(@)]

\* request() raised, before it took a permit or while it held one
RequestRaise(i, exc) ==
    /\ wpc[i] \in {"request", "enqueue", "deliver"}
    /\ semaphore' = IF wpc[i] = "deliver" THEN release(semaphore, wpc)
                                          ELSE semaphore
    /\ IF exceptEmpty(exc)
         THEN /\ wpc' = [wpc EXCEPT ![i] = "check"]
              /\ raised' = raised
              /\ lastOp' = "request_empty"
         ELSE /\ wpc' = raiseIn(wpc, i)
              /\ raised' = raised \cup {i}
              /\ lastOp' = "request_raise"
    /\ cur' = [cur EXCEPT ![i] = NoItem]
    /\ UNCHANGED reqVars
    /\ UNCHANGED <<lateGets, stopRequested, atTeardown, cacheVars>>
    /\ UNCHANGED <<ppc, logging, config, app, pc, bound, queue, pushLog, delivered,
                   pushedToDead>>

\* ------------------------------------------------------------------------
\* The accessors added to web.Request
\* ------------------------------------------------------------------------

\* try: return self[key]   except KeyError: pass
storeGetOther(st, key) == IF key = "actor" THEN st["instance"] ELSE st[key]
storeGet(st, key) == st[key]

\* request_actor, request_instance, request_message
request_field(st, key) == storeGet(st, key)

\* 'signature' not in self._state
signatureMissingAlways(st) == TRUE
signatureMissing(st) == st["signature"] = Absent

\* DotDict.new_from_signature: a new object for a well-formed header; a
\* chunk of a malformed one does not unpack into key and value, which is a
\* ValueError
new_from_signature(header, n) ==
    IF header \in GoodHeaders
      THEN [ok |-> TRUE, value |-> <<header, n>>, error |-> None]
      ELSE [ok |-> FALSE, value |-> Absent, error |-> "ValueError"]

\* except KeyError: return
exceptKeyError(error) == error = "KeyError"

\* what the caller gets when the try block failed with the given error
afterError(error) == IF exceptKeyError(error) THEN Absent ELSE Raises

\* request_signature: the store, the returned value and the parse count after
request_signature(st, header, n) ==
    IF signatureMissing(st)
      THEN IF header = None
             THEN [state |-> st, value |-> afterError("KeyError"),
                   parses |-> n]
             ELSE LET r == new_from_signature(header, n + 1) IN
                    IF r.ok
                      THEN [state |-> [st EXCEPT !["signature"] = r.value],
                            value |-> r.value, parses |-> n + 1]
                      ELSE [state |-> st, value |-> afterError(r.error),
                            parses |-> n + 1]
      ELSE [state |-> st, value |-> st["signature"], parses |-> n]

TotalCalls ==
    calls["actor"] + calls["instance"] + calls["message"] + calls["signature"]

Returned(f, v) ==
    /\ ret' = [field |-> f, value |-> v]
    /\ calls' = [calls EXCEPT ![f] = @ + 1]
    /\ firstRet' = IF firstRet[f] = Absent
                     THEN [firstRet EXCEPT ![f] = v] ELSE firstRet

\* request.actor, request.instance, request.message
AccessField(f) ==
    /\ f \in Fields \ {"signature"}
    /\ TotalCalls < MaxCalls
    /\ Returned(f, request_field(reqState, f))
    /\ UNCHANGED <<reqState, reqHeader, parses>>
    /\ UNCHANGED <<ppc, logging, config, app, semaphore, pc, bound, wpc, queue, cur,
                   pushLog, delivered, lastOp, raised, pushedToDead,
                   lateGets, stopRequested, atTeardown, cacheVars>>

\* request.signature
AccessSignature ==
    /\ TotalCalls < MaxCalls
    /\ LET r == request_signature(reqState, reqHeader, parses) IN
         /\ reqState' = r.state
         /\ parses' = r.parses
         /\ Returned("signature", r.value)
    /\ UNCHANGED reqHeader
    /\ UNCHANGED <<ppc, logging, config, app, semaphore, pc, bound, wpc, queue, cur,
                   pushLog, delivered, lastOp, raised, pushedToDead,
                   lateGets, stopRequested, atTeardown, cacheVars>>

\* an upstream handler fills in request['actor'], ['instance'] or ['message']
Populate(f, v) ==
    /\ f \in Fields \ {"signature"}
    /\ reqState[f] = Absent
    /\ reqState' = [reqState EXCEPT ![f] = v]
    /\ UNCHANGED <<reqHeader, ret, calls, parses, firstRet>>
    /\ UNCHANGED <<ppc, logging, config, app, semaphore, pc, bound, wpc, queue, cur,
                   pushLog, delivered, lastOp, raised, pushedToDead,
                   lateGets, stopRequested, atTeardown, cacheVars>>

InitRequest ==
    /\ InitApp
    /\ \E header \in GoodHeaders \cup {Malformed, None} : NewRequest(header)
    /\ NewCache(MaxCap)

NextRequest ==
    \/ \E f \in Fields \ {"signature"} : AccessField(f)
    \/ AccessSignature
    \/ \E f \in Fields \ {"signature"}, v \in Stored : Populate(f, v)

SpecRequest == InitRequest /\ [][NextRequest]_vars

\* ------------------------------------------------------------------------
\* Cache(LRUCache)
\* ------------------------------------------------------------------------
CacheKeys == 1 .. (MaxCap + 1)

InCache(c, key) == \E k \in 1 .. Len(c) : c[k] = key

\* the order after a use of key: key becomes the most recently used
touchKeepsOrder(c, key) == IF InCache(c, key) THEN c ELSE Append(c, key)
touch(c, key) ==
    Append(SelectSeq(c, LAMBDA x : x # key), key)

\* popitem() until one more item fits: the least recently used keys go
evictNewest(c, maxsize) ==
    IF Len(c) + 1 > maxsize THEN SubSeq(c, 1, maxsize - 1) ELSE c
evict(c, maxsize) ==
    IF Len(c) + 1 > maxsize
      THEN SubSeq(c, Len(c) - maxsize + 2, Len(c))
      ELSE c

\* cache[key]: a hit marks the key as used, a miss is a KeyError
lruGet(c, key) == IF InCache(c, key) THEN touch(c, key) ELSE c

\* cache[key] = value: a value larger than maxsize is refused (ValueError);
\* a key that is there is overwritten and marked as used; a new key makes
\* room first
lruSet(c, key, maxsize) ==
    IF maxsize < 1 THEN c
    ELSE IF InCache(c, key) THEN touch(c, key)
    ELSE touch(evict(c, maxsize), key)

\* del cache[key], cache.pop(key): the key goes, a miss changes nothing
lruDel(c, key) == SelectSeq(c, LAMBDA x : x # key)

\* cache.popitem(): the least recently used key goes
lruPopitem(c) == IF c = <<>> THEN c ELSE Tail(c)

\* int(value): the number for a number or a numeric string, ValueError for
\* anything else (NoNumber)
NoNumber == <<>>
MaxsizeValues == {NoNumber} \cup {<<n>> : n \in 0 .. MaxCap}
int(value) ==
    IF value = NoNumber THEN [ok |-> FALSE, n |-> 0]
                        ELSE [ok |-> TRUE, n |-> value[1]]

\* self.__maxsize = int(value): the attribute the parent class reads
set_maxsize(c, m, value) ==
    IF int(value).ok THEN [keys |-> c, maxsize |-> int(value).n]
                     ELSE [keys |-> c, maxsize |-> m]

CacheGet(key) ==
    /\ Len(cacheLog) < MaxCap + 2
    /\ cache' = lruGet(cache, key)
    /\ cacheLog' = Append(cacheLog, <<"get", key>>)
    /\ UNCHANGED <<cacheMax, reqVars>>
    /\ UNCHANGED <<appVars, workerVars, histVars>>

CacheSet(key) ==
    /\ Len(cacheLog) < MaxCap + 2
    /\ cache' = lruSet(cache, key, cacheMax)
    /\ cacheLog' = Append(cacheLog, <<"set", key>>)
    /\ UNCHANGED <<cacheMax, reqVars>>
    /\ UNCHANGED <<appVars, workerVars, histVars>>

CacheDel(key) ==
    /\ Len(cacheLog) < MaxCap + 2
    /\ cache' = lruDel(cache, key)
    /\ cacheLog' = Append(cacheLog, <<"del", key>>)
    /\ UNCHANGED <<cacheMax, reqVars>>
    /\ UNCHANGED <<appVars, workerVars, histVars>>

CachePopitem ==
    /\ Len(cacheLog) < MaxCap + 2
    /\ cache' = lruPopitem(cache)
    /\ cacheLog' = Append(cacheLog, <<"popitem", 0>>)
    /\ UNCHANGED <<cacheMax, reqVars>>
    /\ UNCHANGED <<appVars, workerVars, histVars>>

CacheSetMaxsize(value) ==
    /\ Len(cacheLog) < MaxCap + 2
    /\ cache' = set_maxsize(cache, cacheMax, value).keys
    /\ cacheMax' = set_maxsize(cache, cacheMax, value).maxsize
    /\ cacheLog' = Append(cacheLog, <<"set_maxsize", int(value).n>>)
    /\ UNCHANGED reqVars
    /\ UNCHANGED <<appVars, workerVars, histVars>>

InitCache ==
    /\ InitApp
    /\ config = [workers |-> 0, push_limit |-> 1]
    /\ NewRequest(None)
    /\ \E maxsize \in 1 .. MaxCap : NewCache(maxsize)

NextCache ==
    \/ \E key \in CacheKeys : CacheGet(key)
    \/ \E key \in CacheKeys : CacheSet(key)
    \/ \E key \in CacheKeys : CacheDel(key)
    \/ CachePopitem
    \/ \E value \in MaxsizeValues : CacheSetMaxsize(value)

SpecCache == InitCache /\ [][NextCache]_vars

\* ------------------------------------------------------------------------
\* The system
\* ------------------------------------------------------------------------
Supervisor ==
    \/ HandleRunStart
    \/ SpawnWorker
    \/ SpawnAppend
    \/ SiteStart
    \/ SetStarttime
    \/ PollSleep
    \/ PollWake
    \/ PollExit
    \/ SiteStop
    \/ Teardown

Worker(i) ==
    \/ WorkerCheck(i)
    \/ WorkerGet(i)
    \/ WorkerEmpty(i)
    \/ RequestTest(i)
    \/ RequestAcquire(i)
    \/ RequestWait(i)
    \/ RequestResume(i)
    \/ RequestReturn(i)
    \/ \E exc \in Exceptions : RequestRaise(i, exc)

Next ==
    \/ \E portOpen \in BOOLEAN : Run(portOpen)
    \/ Stop
    \/ Supervisor
    \/ \E message \in Messages : Push(InboxOf(Len(pushLog) + 1), message)
    \/ PushAdvance
    \/ PushWrap
    \/ PushError
    \/ \E i \in WorkerIds : Worker(i)

Spec == Init /\ [][Next]_vars

\* the steps of the main thread that need no request from outside:
\* handle_run and the rest of a push_message that has begun
MainThread == Supervisor \/ PushAdvance \/ PushWrap

\* the fairness of the main thread: the event loop keeps running it
FairSpec == Spec /\ WF_vars(MainThread)

\* the steps a worker thread takes as soon as the operating system runs
\* it: all but the return from a wait in the gate, and with them a
\* request() that has its permit comes back
Scheduled(i) ==
    \/ WorkerCheck(i)
    \/ WorkerGet(i)
    \/ WorkerEmpty(i)
    \/ RequestTest(i)
    \/ RequestAcquire(i)
    \/ RequestWait(i)
    \/ RequestReturn(i)
    \/ \E exc \in Exceptions : RequestRaise(i, exc)

\* the fairness of the worker threads: the operating system keeps running
\* every thread that can take such a step
FairWorkers == Spec /\ \A i \in WorkerIds : WF_vars(Scheduled(i))

\* ------------------------------------------------------------------------
\* Helpers of the properties
\* ------------------------------------------------------------------------
IsPrefix(s, t) == Len(s) <= Len(t) /\ SubSeq(t, 1, Len(s)) = s

Range(s) == {s[k] : k \in 1 .. Len(s)}

\* the pairs push_message put on worker i's queue, in push order
PushedTo(i) ==
    LET sel == SelectSeq(pushLog, LAMBDA e : e.worker = i) IN
      [k \in 1 .. Len(sel) |-> sel[k].item]

\* workers that hold a permit of the semaphore: they run the delivery, or
\* a release handed them the permit while they wait
HoldingPermit ==
    {i \in WorkerIds : wpc[i] = "deliver" \/ i \in semaphore.woken}

\* workers blocked in the gate
Blocked == {i \in WorkerIds : wpc[i] = "waiting"}

Stopped ==
    /\ pc = "stopped"
    /\ ~bound
    /\ app.starttime = None
    /\ ~app.running
    /\ app.workers = <<>>

\* ------------------------------------------------------------------------
\* Properties
\* ------------------------------------------------------------------------

\* C1: push number k (counted from 0) goes to worker k mod W and to no other
\* queue, and after N push calls, when none is under way, the cursor
\* last_worker is N mod W.
RoundRobin ==
    /\ \A k \in 1 .. Len(pushLog) :
         /\ config.workers >= 1
         /\ pushLog[k].worker = (k - 1) % config.workers
    /\ (config.workers >= 1 /\ ppc = "idle") =>
         app.last_worker = Len(pushLog) % config.workers
    /\ \A i \in WorkerIds : delivered[i] \o queue[i] = PushedTo(i)

RoundRobinWitness ==
    /\ config.workers = 2
    /\ Len(pushLog) >= 3
    /\ ppc = "idle"
    /\ app.last_worker = 1
    /\ Len(PushedTo(0)) = 2

\* C2: at most push_limit workers are past the gate of their delivery call
\* at the same time (they hold a permit), and the gate never gives out more
\* permits than it has.
PermitBound ==
    /\ Cardinality(HoldingPermit) <= config.push_limit
    /\ semaphore.value >= 0

\* C3: what a worker has started to deliver is a prefix of what was pushed
\* to it, in push order.
WorkerFifo == \A i \in WorkerIds : IsPrefix(delivered[i], PushedTo(i))

WorkerFifoWitness ==
    \E i \in WorkerIds :
      /\ Len(delivered[i]) >= 2
      /\ delivered[i][1] # delivered[i][2]

\* C4: after run() found the port taken there are no workers, no thread was
\* started, running is false and starttime is None.
PortBusyNoEffect ==
    pc = "failed" =>
      /\ app.workers = <<>>
      /\ ~app.running
      /\ app.starttime = None
      /\ ~bound
      /\ \A i \in WorkerIds : wpc[i] = "unborn"

PortBusyWitness == pc = "failed" /\ stopRequested

\* C5: in every state stop() twice gives what stop() once gives, a stop()
\* leaves a state that another stop() does not change, the second of two
\* stop() calls in a row changes nothing, and the state after teardown is
\* the same however often stop() was called.
StopIdempotent ==
    /\ [](stop(stop(app)) = stop(app))
    /\ [][lastOp' \in {"stop", "stop2"} =>
            /\ stop(app') = app'
            /\ lastOp' = "stop2" =>
                 UNCHANGED <<ppc, logging, config, app, semaphore, pc, bound, wpc, queue,
                             cur, pushLog, delivered, raised, pushedToDead,
                             lateGets, stopRequested, atTeardown,
                             reqVars, cacheVars>>]_vars
    /\ [](pc = "stopped" =>
            /\ ~app.running
            /\ app.starttime = None
            /\ app.workers = <<>>)

StopTwiceWitness ==
    /\ lastOp = "stop2"
    /\ pc \in {"poll", "sleep"}
    /\ app.workers # <<>>

\* C6: in the poll loop the workers list holds exactly config.workers
\* distinct started workers and starttime is set.
PoolComplete ==
    pc \in {"poll", "sleep"} =>
      /\ Len(app.workers) = config.workers
      /\ Cardinality(Range(app.workers)) = config.workers
      /\ \A i \in Range(app.workers) : wpc[i] # "unborn"
      /\ app.starttime # None
      /\ bound

PoolCompleteWitness ==
    /\ pc = "sleep"
    /\ config.workers = 2
    /\ app.running

\* C7: a stop() seen while the main thread is in the poll loop leads to the
\* stopped state: socket unbound, starttime None, running false, no workers.
StopLeadsToTeardown ==
    (pc \in {"poll", "sleep"} /\ ~app.running) ~> Stopped

StopLeadsToTeardownWitness ==
    /\ Stopped
    /\ config.workers >= 1
    /\ \E i \in WorkerIds : wpc[i] # "unborn"

\* a step in which request() raised inside worker i
RaisedIn(i) ==
    /\ lastOp' \in {"request_raise", "request_empty"}
    /\ wpc'[i] # wpc[i]

\* C8 as stated: whenever request() raises inside a worker, the worker's
\* loop is over.
RaiseEndsLoop == [][\A i \in WorkerIds : RaisedIn(i) => wpc'[i] = "dead"]_vars

\* C8, amended: a worker in which request() raised anything but
\* queue.Empty is dead for good: it takes nothing more off its queue and
\* starts no delivery, it stays in the workers list as long as the list is
\* not cleared at teardown, and push_message keeps putting its share of the
\* pushes on its queue.
DeadForGood ==
    /\ [][\A i \in WorkerIds :
            (RaisedIn(i) /\ lastOp' = "request_raise") => i \in raised'
         ]_vars
    /\ [](\A i \in raised : wpc[i] = "dead")
    /\ [][\A i \in raised :
            /\ delivered'[i] = delivered[i]
            /\ IsPrefix(queue[i], queue'[i])
            /\ cur'[i] = cur[i]
            /\ (i \in Range(app.workers) /\ pc' # "stopped")
                 => i \in Range(app'.workers)
            /\ (Len(pushLog') > Len(pushLog) /\ pickWorker(app) = i)
                 => queue'[i] = Append(queue[i], pushLog'[Len(pushLog')].item)
         ]_vars
    /\ [][\A i \in WorkerIds :
            (i \notin raised /\ i \in raised') => app'.workers = app.workers
         ]_vars

DeadForGoodWitness ==
    /\ pushedToDead
    /\ \E i \in raised : wpc[i] = "dead" /\ queue[i] # <<>>

\* C9: a request() that raises in worker i changes nothing of another
\* worker, of running or of the cursor, holds no permit afterwards, and no
\* worker's loop ends in a step of another worker.
NoCascade ==
    /\ [][\A i \in WorkerIds :
            RaisedIn(i) =>
              /\ \A j \in WorkerIds \ {i} :
                   /\ wpc'[j] = wpc[j]
                   /\ queue'[j] = queue[j]
                   /\ cur'[j] = cur[j]
                   /\ delivered'[j] = delivered[j]
              /\ app' = app
              /\ pc' = pc
              /\ i \notin HoldingPermit'
         ]_vars
    /\ [][\A j \in WorkerIds :
            (wpc'[j] = "dead" /\ wpc[j] # "dead") =>
              /\ wpc[j] \in {"request", "enqueue", "deliver"}
              /\ \A k \in WorkerIds \ {j} : wpc'[k] = wpc[k]
         ]_vars
    /\ [](semaphore.value + Cardinality(HoldingPermit) = config.push_limit)

NoCascadeWitness ==
    \E i \in raised, j \in WorkerIds \ raised :
      /\ Len(delivered[j]) >= 2
      /\ wpc[j] = "deliver"

\* C10: once an accessor has returned a value, every later call of it
\* returns the identical value, and after a parse has stored the signature
\* no further parse is made.
RequestMemoized ==
    /\ [](\A f \in Fields :
            (firstRet[f] # Absent /\ ret.field = f) => ret.value = firstRet[f])
    /\ [][reqState["signature"] # Absent =>
            /\ parses' = parses
            /\ reqState'["signature"] = reqState["signature"]]_vars
    /\ [][\A f \in Fields :
            reqState[f] # Absent => reqState'[f] = reqState[f]]_vars

RequestMemoizedWitness ==
    /\ calls["signature"] >= 2
    /\ calls["actor"] >= 2
    /\ ret.field = "signature"
    /\ ret.value # Absent
    /\ firstRet["actor"] # Absent
    /\ parses = 1

\* C11: request.signature on a request whose header is missing or malformed
\* returns None, raises nothing and stores nothing, so the next call tries
\* again; actor, instance and message return None while nothing is stored.
AbsentNotCached ==
    /\ [](ret.value # Raises)
    /\ [](reqHeader \notin GoodHeaders => reqState["signature"] = Absent)
    /\ [][calls'["signature"] = calls["signature"] + 1 =>
            /\ reqHeader \notin GoodHeaders => ret'.value = Absent
            /\ reqHeader = Malformed => parses' = parses + 1]_vars
    /\ [][\A f \in Fields \ {"signature"} :
            (calls'[f] = calls[f] + 1 /\ reqState[f] = Absent) =>
              (ret'.value = Absent /\ reqState' = reqState)]_vars

\* the log is n inserts of n different keys and nothing else
OnlyInserts(log, n) ==
    /\ Len(log) = n
    /\ \A k \in 1 .. n : log[k][1] = "set"
    /\ \A k, l \in 1 .. n : k # l => log[k][2] # log[l][2]

\* the log fills the cache, reads one of its keys and inserts a new key
FillReadInsert(log) ==
    /\ Len(log) = cacheMax + 2
    /\ OnlyInserts(SubSeq(log, 1, cacheMax), cacheMax)
    /\ log[cacheMax + 1][1] = "get"
    /\ \E k \in 1 .. cacheMax : log[k][2] = log[cacheMax + 1][2]
    /\ log[cacheMax + 2][1] = "set"
    /\ \A k \in 1 .. cacheMax : log[k][2] # log[cacheMax + 2][2]

\* the key inserted first among those that were not read
OldestUnread(log) ==
    IF log[1][2] = log[cacheMax + 1][2] THEN log[2][2] ELSE log[1][2]

LruAfterOverflow ==
    OnlyInserts(cacheLog, cacheMax + 1) =>
      /\ ~InCache(cache, cacheLog[1][2])
      /\ \A k \in 2 .. (cacheMax + 1) : InCache(cache, cacheLog[k][2])

\* set_maxsize was called on the cache: it is no longer the cache of
\* capacity C it was made as
Resized == \E k \in 1 .. Len(cacheLog) : cacheLog[k][1] = "set_maxsize"

\* C12 as stated, for a cache of every capacity C: the first of C+1
\* inserted keys is evicted; a key read before the insert at capacity
\* survives; never more than C entries.
LruEvictionAnyCapacity ==
    /\ ~Resized => Len(cache) <= cacheMax
    /\ LruAfterOverflow
    /\ FillReadInsert(cacheLog) => InCache(cache, cacheLog[cacheMax + 1][2])

\* C12, amended: the same, the read key being said to survive only when
\* the capacity is at least 2; in a cache of capacity 1 the read key is the
\* only one and it is evicted.
LruEviction ==
    /\ [](~Resized => Len(cache) <= cacheMax)
    /\ [](LruAfterOverflow)
    /\ []((FillReadInsert(cacheLog) /\ cacheMax >= 2) =>
         /\ InCache(cache, cacheLog[cacheMax + 1][2])
         /\ InCache(cache, cacheLog[cacheMax + 2][2])
         /\ ~InCache(cache, OldestUnread(cacheLog))
         /\ Len(cache) = cacheMax)
    /\ []((FillReadInsert(cacheLog) /\ cacheMax = 1) =>
         cache = <<cacheLog[3][2]>>)

LruEvictionWitness ==
    /\ cacheMax = 2
    /\ FillReadInsert(cacheLog)
    /\ cacheLog[1][2] = cacheLog[3][2]

\* C13 as stated: once running is false no worker takes a further item off
\* its queue, and stop() cancels no delivery in flight.
NoDequeueAfterStop ==
    /\ [](\A i \in WorkerIds : lateGets[i] = 0)
    /\ [][lastOp' \in {"stop", "stop2"} => (wpc' = wpc /\ cur' = cur)]_vars

\* C13, amended: once running is false a worker takes at most one further
\* item, the one its pending queue.get returns; a worker that evaluates the
\* loop condition afterwards leaves the loop; stop() cancels no delivery in
\* flight.
AtMostOneLateGet ==
    /\ [](\A i \in WorkerIds : lateGets[i] <= 1)
    /\ [][\A i \in WorkerIds :
            /\ (~app.running /\ wpc[i] = "check")
                 => wpc'[i] \in {"check", "exited"}
            /\ (~app.running /\ delivered'[i] # delivered[i])
                 => wpc[i] = "get"
         ]_vars
    /\ [][lastOp' \in {"stop", "stop2"} =>
            (wpc' = wpc /\ cur' = cur /\ semaphore' = semaphore)]_vars

AtMostOneLateGetWitness ==
    \E i \in WorkerIds :
      /\ lateGets[i] = 1
      /\ wpc[i] = "exited"
      /\ Len(delivered[i]) >= 2
      /\ i \notin raised

\* C14 as stated: nothing that is in a queue when handle_run clears the
\* workers list is delivered afterwards.
QueuedAtTeardownDropped ==
    pc = "stopped" =>
      \A i \in WorkerIds : Len(delivered[i]) = atTeardown[i]

\* C14, amended: of the pairs in a worker's queue at teardown at most the
\* head is delivered afterwards, by the worker that owns the queue; the
\* others are never delivered.
QueuedAtTeardownAtMostHead ==
    pc = "stopped" =>
      \A i \in WorkerIds :
        /\ Len(delivered[i]) <= atTeardown[i] + 1
        /\ IsPrefix(delivered[i], PushedTo(i))
        /\ wpc[i] \in {"exited", "dead"} => Len(queue[i]) + Len(delivered[i])
                                             = Len(PushedTo(i))

QueuedAtTeardownWitness ==
    /\ pc = "stopped"
    /\ \E i \in WorkerIds :
         /\ Len(delivered[i]) = atTeardown[i] + 1
         /\ wpc[i] = "exited"
         /\ queue[i] # <<>>

\* C15: once stop() was called after run() was invoked, running is false
\* and stays false.
StopNeverOverwritten == stopRequested => ~app.running

\* C20: a spawned worker leaves its loop only after a stop() or by an
\* exception of request(), and as long as no stop() was called every
\* spawned worker finds running true.
NoPrematureExit ==
    \A i \in WorkerIds :
      /\ wpc[i] = "exited" => (stopRequested /\ ~app.running)
      /\ (wpc[i] # "unborn" /\ ~stopRequested) => app.running
      /\ wpc[i] = "dead" => i \in raised

NoPrematureExitWitness ==
    /\ ~stopRequested
    /\ config.workers = 2
    /\ \A i \in WorkerIds : Len(delivered[i]) >= 1 /\ wpc[i] = "get"

\* C17: every delivery call is for a pair that was pushed, is made by the
\* worker on whose queue push_message put the pair, and no pushed pair is
\* the subject of two delivery calls, in one worker or in two.
AtMostOnce ==
    /\ \A i \in WorkerIds : \A k \in 1 .. Len(delivered[i]) :
         \E n \in 1 .. Len(pushLog) :
           /\ pushLog[n].item = delivered[i][k]
           /\ pushLog[n].worker = i
    /\ \A i, j \in WorkerIds :
         \A k \in 1 .. Len(delivered[i]), l \in 1 .. Len(delivered[j]) :
           (i # j \/ k # l) => delivered[i][k] # delivered[j][l]

AtMostOnceWitness ==
    /\ config.workers = 2
    /\ Len(pushLog) >= 3
    /\ \A i \in WorkerIds : queue[i] = <<>> /\ Len(delivered[i]) >= 1
    /\ Len(delivered[0]) + Len(delivered[1]) = Len(pushLog)

\* C19: a push on an empty workers list ends in an error and changes
\* neither the cursor nor a queue, no push is accepted then, and while the
\* list is not empty the cursor is a valid index into it at the entry of
\* every push (whenever no push is under way).
PushOnEmptyPool ==
    /\ []((app.workers # <<>> /\ ppc = "idle") =>
            (0 <= app.last_worker /\ app.last_worker < Len(app.workers)))
    /\ [][(lastOp' = "push_error" /\ lastOp # "push_error") =>
            /\ app.workers = <<>>
            /\ app' = app
            /\ queue' = queue
            /\ pushLog' = pushLog]_vars
    /\ [][Len(pushLog') > Len(pushLog) =>
            (app.workers # <<>> /\ app.last_worker < Len(app.workers))]_vars

PushOnEmptyPoolWitness ==
    /\ lastOp = "push_error"
    /\ pc = "stopped"
    /\ app.last_worker = 1
    /\ \E i \in WorkerIds : queue[i] # <<>>

\* C16: once running is false every started worker leaves its loop, with an
\* empty queue as well (the get times out and the flag is checked again),
\* unless its request() never returns because it waits in the gate.
WorkersExitOnStop ==
    \A i \in WorkerIds :
      (wpc[i] # "unborn" /\ ~app.running)
        ~> (wpc[i] \in {"exited", "dead"} \/ i \in Blocked)

WorkersExitOnStopWitness ==
    /\ config.workers = 2
    /\ ~app.running
    /\ raised = {}
    /\ \A i \in WorkerIds : wpc[i] = "exited"
    /\ queue[0] = <<>>
    /\ pushLog = <<>>

\* C18: while the relay keeps running, no request() raises and none waits
\* in the gate for ever, every worker starts a delivery call for each pair
\* pushed to it.
EventualDelivery ==
    ([](lastOp \notin {"request_raise", "request_empty"})
       /\ [](pushLog # <<>> => app.running)
       /\ \A i \in WorkerIds : []<>(i \notin Blocked))
      => \A i \in WorkerIds : \A n \in 1 .. MaxPush :
           (Len(PushedTo(i)) >= n) ~> (Len(delivered[i]) >= n)

EventualDeliveryWitness ==
    /\ app.running
    /\ raised = {}
    /\ config.workers = 2
    /\ Len(pushLog) = MaxPush
    /\ \A i \in WorkerIds :
         /\ delivered[i] = PushedTo(i)
         /\ wpc[i] = "get"

====
